---------------------------- MODULE Spec2Model ----------------------------
(***************************************************************************)
(* Chunk voxel storage, scene assembly and the cube mesh template of the   *)
(* voxel engine.                                                           *)
(*                                                                         *)
(* Two chunk implementations exist in the sources:                         *)
(*   src/src/chunk.rs  a library Chunk with the compile-time SIZE 16       *)
(*   src/src/main.rs   the Chunk of the binary, with a per-instance size   *)
(* main.rs does not include chunk.rs, so a behaviour is either a use of    *)
(* the library chunk (pc = "lib" / "lib_chunk") or a run of the binary     *)
(* (pc = "setup" / "new" / "building" / "ready" / "rendered").             *)
(* pc = "panicked" is the program after a panic.                           *)
(*                                                                         *)
(* Conventions.                                                            *)
(*   Voxel           the record [id |-> n]                                 *)
(*   Vec<Voxel>      a sequence; Rust index i is TLA+ index i + 1          *)
(*   Option<&Voxel>  None is << >>, Some(v) is << v >>                     *)
(*   Vec3            a triple; grid positions and voxel coordinates are    *)
(*                   small integers, which f32 represents exactly, so the  *)
(*                   f32 arithmetic of render_chunks is integer arithmetic *)
(*   usize           coordinates stay far below 2^64 / SIZE^2, so the      *)
(*                   products of the linearization never wrap              *)
(***************************************************************************)
EXTENDS Integers, Sequences, FiniteSets

VARIABLES
    pc,         \* position of the program (see above)
    chunk,      \* the Chunk value in hand (being built, or the library chunk)
    chunks,     \* the Chunk components spawned into the world, in spawn order
    mesh,       \* the cube mesh stored in ExampleAsset (NoMesh before setup ends)
    instances,  \* the PbrBundle entities spawned by render_chunks, in spawn order
    aborted,    \* history: indexes of chunks whose iteration took the early return
    targets,    \* history: <<chunk index, cell>> of every in-range set so far
    last,       \* history: the most recent call of set and the chunk before it
    nsets       \* number of single set calls made so far (bounded by MaxSets)

vars == <<pc, chunk, chunks, mesh, instances, aborted, targets, last, nsets>>

---------------------------------------------------------------------------
(* Bounds of the model *)

MaxSize == 2

MaxSets == 1

Sizes == 0..MaxSize

\* coordinates handed to set on a chunk of size n: the lowest and the highest
\* in-range value, and the first value beyond the range
Coords(n) == {0, n} \cup (IF n > 0 THEN {n - 1} ELSE {})

\* 0 is the empty voxel, 1 the one solid type the program produces
VoxelIds == {0, 1}

\* grid slots a chunk can be created at; a world holds at most one chunk per slot
GridPositions == {<<1, 0, 2>>, <<1, 1, 2>>}

---------------------------------------------------------------------------
(* voxel.rs / main.rs: Voxel *)

Voxel(id) == [id |-> id]

Voxel_SIZE == 1

---------------------------------------------------------------------------
(* std: Option, and <[T]>::get, which never panics *)

None == << >>

Some(v) == << v >>

\* i < v.len(): Rust index i is in bounds of the sequence v
InBounds(v, i) == (i + 1) \in DOMAIN v

slice_get(v, i) == IF InBounds(v, i) THEN Some(v[i + 1]) ELSE None

---------------------------------------------------------------------------
(* main.rs: Chunk with a per-instance size *)

\* what a call leaves behind when the indexing self.voxels[i] panics
Panic == [voxels |-> << >>, position |-> <<0, 0, 0>>, size |-> -1]

flatten_cartesian_yy(self, x, y, z) ==
    (z * self.size * self.size) + (y * self.size) + y

flatten_cartesian_zz(self, x, y, z) ==
    (z * self.size) + (y * self.size) + x

flatten_cartesian(self, x, y, z) ==
    (z * self.size * self.size) + (y * self.size) + x

Chunk_new_short(position, size) ==
    [voxels   |-> [i \in 1..(size * size) |-> Voxel(0)],
     position |-> position,
     size     |-> size]

Chunk_new(position, size) ==
    [voxels   |-> [i \in 1..(size * size * size) |-> Voxel(0)],
     position |-> position,
     size     |-> size]

Chunk_get_off(self, x, y, z) ==
    slice_get(self.voxels, flatten_cartesian(self, x, y, z) + 1)

Chunk_get(self, x, y, z) == slice_get(self.voxels, flatten_cartesian(self, x, y, z))

Chunk_set_nox(self, x, y, z, value) ==
    IF y < self.size /\ z < self.size
    THEN LET i == flatten_cartesian(self, x, y, z)
         IN  IF InBounds(self.voxels, i)
             THEN [self EXCEPT !.voxels[i + 1] = value]
             ELSE Panic
    ELSE self

Chunk_set(self, x, y, z, value) ==
    IF x < self.size /\ y < self.size /\ z < self.size
    THEN LET i == flatten_cartesian(self, x, y, z)
         IN  IF InBounds(self.voxels, i)
             THEN [self EXCEPT !.voxels[i + 1] = value]
             ELSE Panic
    ELSE self

---------------------------------------------------------------------------
(* chunk.rs: Chunk with the compile-time size *)

Chunk_SIZE == 16

LibPanic == [voxels |-> << >>, position |-> <<-1, -1, -1>>]

linearize(x, y, z) == (z * Chunk_SIZE * Chunk_SIZE) + (y * Chunk_SIZE) + x

lib_new(position) ==
    [voxels   |-> [i \in 1..(Chunk_SIZE * Chunk_SIZE * Chunk_SIZE) |-> Voxel(0)],
     position |-> position]

lib_get(self, x, y, z) == slice_get(self.voxels, linearize(x, y, z))

lib_set(self, x, y, z, value) ==
    IF x < Chunk_SIZE /\ y < Chunk_SIZE /\ z < Chunk_SIZE
    THEN LET i == linearize(x, y, z)
         IN  IF InBounds(self.voxels, i)
             THEN [self EXCEPT !.voxels[i + 1] = value]
             ELSE LibPanic
    ELSE self

---------------------------------------------------------------------------
(* main.rs: generate_cube_mesh.  Positions are stored doubled (-0.5 is -1, *)
(* 0.5 is 1) and UV coordinates in hundredths, so every table is integer.  *)

CubePositions ==
    << <<-1, 1, -1>>, <<1, 1, -1>>, <<1, 1, 1>>, <<-1, 1, 1>>,         \* top (+y)
       <<-1, -1, -1>>, <<1, -1, -1>>, <<1, -1, 1>>, <<-1, -1, 1>>,     \* bottom (-y)
       <<1, -1, -1>>, <<1, -1, 1>>, <<1, 1, 1>>, <<1, 1, -1>>,         \* right (+x)
       <<-1, -1, -1>>, <<-1, -1, 1>>, <<-1, 1, 1>>, <<-1, 1, -1>>,     \* left (-x)
       <<-1, -1, 1>>, <<-1, 1, 1>>, <<1, 1, 1>>, <<1, -1, 1>>,         \* back (+z)
       <<-1, -1, -1>>, <<-1, 1, -1>>, <<1, 1, -1>>, <<1, -1, -1>> >>   \* forward (-z)

CubeUvs ==
    << <<0, 20>>, <<0, 0>>, <<100, 0>>, <<100, 20>>,
       <<0, 45>>, <<0, 25>>, <<100, 25>>, <<100, 45>>,
       <<100, 45>>, <<0, 45>>, <<0, 20>>, <<100, 20>>,
       <<100, 45>>, <<0, 45>>, <<0, 20>>, <<100, 20>>,
       <<0, 45>>, <<0, 20>>, <<100, 20>>, <<100, 45>>,
       <<0, 45>>, <<0, 20>>, <<100, 20>>, <<100, 45>> >>

CubeNormals ==
    << <<0, 1, 0>>, <<0, 1, 0>>, <<0, 1, 0>>, <<0, 1, 0>>,
       <<0, -1, 0>>, <<0, -1, 0>>, <<0, -1, 0>>, <<0, -1, 0>>,
       <<1, 0, 0>>, <<1, 0, 0>>, <<1, 0, 0>>, <<1, 0, 0>>,
       <<-1, 0, 0>>, <<-1, 0, 0>>, <<-1, 0, 0>>, <<-1, 0, 0>>,
       <<0, 0, 1>>, <<0, 0, 1>>, <<0, 0, 1>>, <<0, 0, 1>>,
       <<0, 0, -1>>, <<0, 0, -1>>, <<0, 0, -1>>, <<0, 0, -1>> >>

CubeIndices_flipped ==
    << 0, 3, 1, 1, 3, 2,
       4, 5, 7, 5, 6, 7,
       8, 11, 9, 9, 11, 10,
       12, 13, 15, 13, 14, 15,
       16, 19, 17, 17, 19, 18,
       20, 21, 23, 21, 23, 22 >>

CubeIndices ==
    << 0, 3, 1, 1, 3, 2,
       4, 5, 7, 5, 6, 7,
       8, 11, 9, 9, 11, 10,
       12, 13, 15, 13, 14, 15,
       16, 19, 17, 17, 19, 18,
       20, 21, 23, 21, 22, 23 >>

generate_cube_mesh ==
    [positions |-> CubePositions,
     uvs       |-> CubeUvs,
     normals   |-> CubeNormals,
     indices   |-> CubeIndices]

NoMesh == [positions |-> << >>, uvs |-> << >>, normals |-> << >>, indices |-> << >>]

---------------------------------------------------------------------------
(* main.rs: setup *)

\* extent of the fill loops of setup (for x in 0..8, for y in 0..8, for z in 0..8)
FillExtent == 8

\* the k-th coordinate (k from 0) of three nested loops over 0..n, first loop outermost
LoopCell(n, k) == << k \div (n * n), (k \div n) % n, k % n >>

\* for z in 0..8 { chunk.set(x, y, z, Voxel { id: 1 }) }
\* (a set that panics ends the loops; the chunk it leaves is Panic)
RECURSIVE FillZ(_, _, _, _)
FillZ(c, x, y, z) ==
    IF z = FillExtent THEN c
    ELSE LET d == Chunk_set(c, x, y, z, Voxel(1))
         IN  IF d = Panic THEN Panic ELSE FillZ(d, x, y, z + 1)

\* for y in 0..8 { for z in 0..8 { ... } }
RECURSIVE FillY(_, _, _)
FillY(c, x, y) ==
    IF y = FillExtent THEN c
    ELSE LET d == FillZ(c, x, y, 0)
         IN  IF d = Panic THEN Panic ELSE FillY(d, x, y + 1)

\* for x in 0..8 { for y in 0..8 { for z in 0..8 { ... } } }
RECURSIVE FillX(_, _)
FillX(c, x) ==
    IF x = FillExtent THEN c
    ELSE LET d == FillY(c, x, 0)
         IN  IF d = Panic THEN Panic ELSE FillX(d, x + 1)

Fill(c) == FillX(c, 0)

\* (0..3).flat_map(|x| (0..3).map(move |z| Chunk::new(vec3(x, 0, z), 8)))
SetupGrid == 3

SetupSize == 8

\* the k-th chunk (k from 0) that setup creates and fills: x = k / 3, z = k % 3
SetupChunk(k) ==
    Fill(Chunk_new(<< k \div SetupGrid, 0, k % SetupGrid >>, SetupSize))

\* .for_each(|mut chunk| { fill; commands.spawn(chunk) }) from the k-th chunk on
RECURSIVE SpawnFrom(_, _)
SpawnFrom(cs, k) ==
    IF k = SetupGrid * SetupGrid THEN cs
    ELSE LET c == SetupChunk(k)
         IN  IF c = Panic THEN << Panic >> ELSE SpawnFrom(Append(cs, c), k + 1)

---------------------------------------------------------------------------
(* main.rs: render_chunks *)

Transform_from_xyz(c, x, y, z) ==
    << (Voxel_SIZE * x) + (Voxel_SIZE * c.size * c.position[1]),
       Voxel_SIZE * y,
       (Voxel_SIZE * z) + (Voxel_SIZE * c.size * c.position[3]) >>

\* number of cells the loops over one chunk visit before they end or return
Visited(c) ==
    LET n    == c.size * c.size * c.size
        none == {k \in 0..(n - 1) :
                    LET cell == LoopCell(c.size, k)
                    IN  Chunk_get(c, cell[1], cell[2], cell[3]) = None}
    IN  IF none = {} THEN n ELSE CHOOSE k \in none : \A j \in none : k <= j

\* the entities spawned for chunk number i; chunk and cell record where each came from
ChunkInstances(i, c) ==
    [k \in 1..Visited(c) |->
        LET cell == LoopCell(c.size, k - 1)
        IN  [transform |-> Transform_from_xyz(c, cell[1], cell[2], cell[3]),
             chunk     |-> i,
             cell      |-> cell]]

RECURSIVE AllInstances(_, _)
AllInstances(cs, i) ==
    IF i > Len(cs) THEN << >>
    ELSE ChunkInstances(i, cs[i]) \o AllInstances(cs, i + 1)

Aborted(cs) ==
    {i \in 1..Len(cs) : Visited(cs[i]) < cs[i].size * cs[i].size * cs[i].size}

---------------------------------------------------------------------------
(* State machine *)

\* history: the cells of chunk number i, of size n, that the fill loops set
FillTargets(i, n) ==
    {<<i, c>> : c \in {d \in (0..(FillExtent - 1)) \X (0..(FillExtent - 1)) \X (0..(FillExtent - 1)) :
                          d[1] < n /\ d[2] < n /\ d[3] < n}}

NoChunk == [voxels |-> << >>, position |-> <<0, 0, 0>>, size |-> 0]

NoCall == [op |-> "none"]

Call(before, x, y, z, value) ==
    [op |-> "set", before |-> before, x |-> x, y |-> y, z |-> z, value |-> value]

Init ==
    /\ pc \in {"setup", "lib"}
    /\ chunk = NoChunk
    /\ chunks = << >>
    /\ mesh = NoMesh
    /\ instances = << >>
    /\ aborted = {}
    /\ targets = {}
    /\ last = NoCall
    /\ nsets = 0

\* main.rs:66  Chunk::new(position, size) in setup, at a free grid slot; one
\* size per world
NewChunk ==
    /\ pc = "setup"
    /\ \E position \in GridPositions, size \in Sizes :
          /\ \A i \in 1..Len(chunks) : chunks[i].position # position
          /\ chunks # << >> => size = chunks[1].size
          /\ chunk' = Chunk_new(position, size)
    /\ pc' = "new"
    /\ last' = NoCall
    /\ UNCHANGED <<chunks, mesh, instances, aborted, targets, nsets>>

\* main.rs:71  one call chunk.set(x, y, z, value) on the chunk being built
SetVoxel ==
    /\ pc \in {"new", "building"}
    /\ nsets < MaxSets
    /\ \E x \in Coords(chunk.size), y \in Coords(chunk.size), z \in Coords(chunk.size),
          id \in VoxelIds :
          LET after == Chunk_set(chunk, x, y, z, Voxel(id))
          IN  /\ chunk' = IF after = Panic THEN chunk ELSE after
              /\ pc' = IF after = Panic THEN "panicked" ELSE "building"
              /\ last' = Call(chunk, x, y, z, Voxel(id))
              /\ targets' = IF x < chunk.size /\ y < chunk.size /\ z < chunk.size
                            THEN targets \cup {<<Len(chunks) + 1, <<x, y, z>>>>}
                            ELSE targets
    /\ nsets' = nsets + 1
    /\ UNCHANGED <<chunks, mesh, instances, aborted>>

\* main.rs:68-74  the fill loops of setup, run on the chunk just constructed
\* (run after single sets they would overwrite them and give the same chunk)
FillChunk ==
    /\ pc = "new"
    /\ LET after == Fill(chunk)
       IN  /\ chunk' = IF after = Panic THEN chunk ELSE after
           /\ pc' = IF after = Panic THEN "panicked" ELSE "building"
    /\ last' = NoCall
    /\ targets' = targets \cup FillTargets(Len(chunks) + 1, chunk.size)
    /\ UNCHANGED <<chunks, mesh, instances, aborted, nsets>>

\* main.rs:76  commands.spawn(chunk)
SpawnChunk ==
    /\ pc \in {"new", "building"}
    /\ chunks' = Append(chunks, chunk)
    /\ chunk' = NoChunk
    /\ pc' = "setup"
    /\ last' = NoCall
    /\ UNCHANGED <<mesh, instances, aborted, targets, nsets>>

\* main.rs:95-102  the end of setup: the mesh is generated and stored
FinishSetup ==
    /\ pc = "setup"
    /\ chunks # << >>
    /\ mesh' = generate_cube_mesh
    /\ pc' = "ready"
    /\ UNCHANGED <<chunk, chunks, instances, aborted, targets, last, nsets>>

\* main.rs:58-103  setup as written: nine filled chunks of size 8, then the mesh
setup ==
    /\ pc = "setup"
    /\ chunks = << >>
    /\ LET spawned == SpawnFrom(chunks, 0)
       IN  IF spawned = << Panic >>
           THEN /\ pc' = "panicked"
                /\ UNCHANGED <<chunks, targets, mesh>>
           ELSE /\ chunks' = spawned
                /\ targets' = UNION {FillTargets(i, SetupSize) : i \in 1..(SetupGrid * SetupGrid)}
                /\ mesh' = generate_cube_mesh
                /\ pc' = "ready"
    /\ UNCHANGED <<chunk, instances, aborted, last, nsets>>

\* main.rs:105-136  render_chunks, scheduled once after setup
render_chunks ==
    /\ pc = "ready"
    /\ instances' = AllInstances(chunks, 1)
    /\ aborted' = Aborted(chunks)
    /\ pc' = "rendered"
    /\ UNCHANGED <<chunk, chunks, mesh, targets, last, nsets>>

\* chunk.rs:13-18  Chunk::new(position)
LibNew ==
    /\ pc = "lib"
    /\ \E position \in GridPositions : chunk' = lib_new(position)
    /\ pc' = "lib_chunk"
    /\ UNCHANGED <<chunks, mesh, instances, aborted, targets, last, nsets>>

\* chunk.rs:26-31  Chunk::set(x, y, z, value)
LibSet ==
    /\ pc = "lib_chunk"
    /\ nsets < MaxSets
    /\ \E x \in Coords(Chunk_SIZE), y \in Coords(Chunk_SIZE), z \in Coords(Chunk_SIZE),
          id \in VoxelIds :
          LET after == lib_set(chunk, x, y, z, Voxel(id))
          IN  /\ chunk' = IF after = LibPanic THEN chunk ELSE after
              /\ pc' = IF after = LibPanic THEN "panicked" ELSE "lib_chunk"
              /\ last' = Call(chunk, x, y, z, Voxel(id))
              /\ targets' = IF x < Chunk_SIZE /\ y < Chunk_SIZE /\ z < Chunk_SIZE
                            THEN targets \cup {<<1, <<x, y, z>>>>}
                            ELSE targets
    /\ nsets' = nsets + 1
    /\ UNCHANGED <<chunks, mesh, instances, aborted>>

Next ==
    \/ NewChunk
    \/ SetVoxel
    \/ FillChunk
    \/ SpawnChunk
    \/ FinishSetup
    \/ setup
    \/ render_chunks
    \/ LibNew
    \/ LibSet

Spec == Init /\ [][Next]_vars

---------------------------------------------------------------------------
(* Vocabulary of the properties *)

InRange(n, x, y, z) == x < n /\ y < n /\ z < n

Cube(n) == (0..(n - 1)) \X (0..(n - 1)) \X (0..(n - 1))

\* the in-range coordinates of the library chunk, and their linearizations
LibCube == Cube(Chunk_SIZE)

LibImage == {linearize(d[1], d[2], d[3]) : d \in LibCube}

\* coordinates probed with get: the cube of the chunk and two values beyond it
Probes(n) == (0..(n + 1)) \X (0..(n + 1)) \X (0..(n + 1))

\* coordinates probed with get on the library chunk
LibProbes ==
    LET axis == {0, 1, Chunk_SIZE - 1, Chunk_SIZE, Chunk_SIZE + 1}
    IN  axis \X axis \X axis

InBinary == pc \in {"setup", "new", "building", "ready", "rendered"}

InHand == pc \in {"new", "building"}

\* the chunks of the binary that exist, by number: the spawned ones, then the one in hand
NumChunks == Len(chunks) + (IF InHand THEN 1 ELSE 0)

ChunkAt(i) == IF i <= Len(chunks) THEN chunks[i] ELSE chunk

\* the size of the chunk the last call of set was made on
LastSize == IF pc = "lib_chunk" THEN Chunk_SIZE ELSE last.before.size

LastGet(c, x, y, z) ==
    IF pc = "lib_chunk" THEN lib_get(c, x, y, z) ELSE Chunk_get(c, x, y, z)

InstancesOf(i) == {k \in 1..Len(instances) : instances[k].chunk = i}

---------------------------------------------------------------------------
(* C1.  For every chunk (library chunk of SIZE 16 and chunk of the binary)  *)
(* and every coordinate with at least one component >= size, get returns   *)
(* None.                                                                   *)
C1_GetOutOfRangeIsNone ==
    /\ InBinary =>
          \A i \in 1..NumChunks : \A c \in Probes(ChunkAt(i).size) :
              ~InRange(ChunkAt(i).size, c[1], c[2], c[3])
                  => Chunk_get(ChunkAt(i), c[1], c[2], c[3]) = None
    /\ pc = "lib_chunk" =>
          \A c \in LibProbes :
              ~InRange(Chunk_SIZE, c[1], c[2], c[3]) => lib_get(chunk, c[1], c[2], c[3]) = None

(* C2.  A set with at least one component >= size leaves the chunk          *)
(* unchanged (every voxel, the storage length, the position) and does not  *)
(* panic.                                                                  *)
C2_SetOutOfRangeNoChange ==
    /\ pc # "panicked"
    /\ (last.op = "set" /\ ~InRange(LastSize, last.x, last.y, last.z))
          => chunk = last.before

\* an out-of-range set has been made on a chunk that holds solid voxels
C2_Witness ==
    /\ last.op = "set"
    /\ ~InRange(LastSize, last.x, last.y, last.z)
    /\ last.value = Voxel(0)
    /\ \E i \in 1..Len(last.before.voxels) : last.before.voxels[i] = Voxel(1)

(* C3.  After set(x, y, z, v) with x, y, z < size, get(x, y, z) returns v   *)
(* and get returns for every other in-range coordinate what it returned    *)
(* before the call.                                                        *)
C3_SetOverwritesOneCell ==
    /\ pc # "panicked"
    /\ (last.op = "set" /\ InRange(LastSize, last.x, last.y, last.z))
          => /\ LastGet(chunk, last.x, last.y, last.z) = Some(last.value)
             /\ \A c \in (IF pc = "lib_chunk" THEN LibCube ELSE Cube(LastSize)) :
                    c # <<last.x, last.y, last.z>>
                        => LastGet(chunk, c[1], c[2], c[3]) = LastGet(last.before, c[1], c[2], c[3])

\* an in-range set has replaced the voxel of a cell other than the first one
C3_Witness ==
    /\ last.op = "set"
    /\ InRange(LastSize, last.x, last.y, last.z)
    /\ last.y > 0
    /\ LastGet(last.before, last.x, last.y, last.z) # Some(last.value)

(* C4.  The linearization z*size*size + y*size + x, on the coordinates with *)
(* x, y, z < size, is a bijection onto 0 .. size^3 - 1: its image is that   *)
(* interval and has as many elements as there are coordinates.             *)
C4_LinearizeBijection ==
    /\ InBinary =>
          \A i \in 1..NumChunks :
              LET c   == ChunkAt(i)
                  img == {flatten_cartesian(c, d[1], d[2], d[3]) : d \in Cube(c.size)}
              IN  /\ img = 0..((c.size * c.size * c.size) - 1)
                  /\ Cardinality(img) = Cardinality(Cube(c.size))
    /\ pc = "lib_chunk" =>
          /\ LibImage = 0..((Chunk_SIZE * Chunk_SIZE * Chunk_SIZE) - 1)
          /\ Cardinality(LibImage) = Cardinality(LibCube)

\* a chunk of the largest size exists
C4_Witness == InBinary /\ \E i \in 1..NumChunks : ChunkAt(i).size = MaxSize

(* C5.  In every state reached from new by set calls the storage has        *)
(* exactly size^3 entries, and every in-range cell no in-range set has      *)
(* targeted holds the empty voxel.                                          *)
C5_StorageSizeAndEmptyCells ==
    /\ InBinary =>
          \A i \in 1..NumChunks :
              LET c == ChunkAt(i)
              IN  /\ Len(c.voxels) = c.size * c.size * c.size
                  /\ \A d \in Cube(c.size) :
                        <<i, d>> \notin targets => Chunk_get(c, d[1], d[2], d[3]) = Some(Voxel(0))
    /\ pc = "lib_chunk" =>
          /\ Len(chunk.voxels) = Chunk_SIZE * Chunk_SIZE * Chunk_SIZE
          /\ \A d \in LibCube :
                <<1, d>> \notin targets => lib_get(chunk, d[1], d[2], d[3]) = Some(Voxel(0))

\* a chunk with a solid cell that was set and cells that never were
C5_Witness ==
    /\ pc = "building"
    /\ chunk.size = MaxSize
    /\ Cardinality(targets) = 1
    /\ \E i \in 1..Len(chunk.voxels) : chunk.voxels[i] = Voxel(1)

(* C6.  render_chunks places an instance for a cell if and only if the      *)
(* voxel of the cell is non-empty: no instance for id 0, exactly one for a  *)
(* nonzero id.                                                              *)
C6_InstanceIffNonEmpty ==
    pc = "rendered" =>
        \A i \in 1..Len(chunks) :
            LET c  == chunks[i]
                of == InstancesOf(i)
            IN  \A d \in Cube(c.size) :
                    Cardinality({k \in of : instances[k].cell = d})
                        = (IF Chunk_get(c, d[1], d[2], d[3]) = Some(Voxel(0)) THEN 0 ELSE 1)

(* C7.  The world coordinate of every placed instance equals, on each of    *)
(* the three axes, voxel size * local coordinate + voxel size * chunk size  *)
(* * chunk position.                                                        *)
C7_WorldCoordinate ==
    \A k \in 1..Len(instances) :
        LET c == chunks[instances[k].chunk]
        IN  \A axis \in 1..3 :
                instances[k].transform[axis]
                    = (Voxel_SIZE * instances[k].cell[axis])
                        + (Voxel_SIZE * c.size * c.position[axis])

(* C8.  For chunks of one size at pairwise distinct grid positions, each    *)
(* filled with id-1 voxels, the instance list has k * size^3 instances and  *)
(* no two instances share a world coordinate.                               *)
C8_FilledChunksDistinct ==
    ( /\ pc = "rendered"
      /\ \A i, j \in 1..Len(chunks) :
            /\ chunks[i].size = chunks[j].size
            /\ i # j => chunks[i].position # chunks[j].position
      /\ \A i \in 1..Len(chunks) : \A n \in 1..Len(chunks[i].voxels) :
            chunks[i].voxels[n] = Voxel(1) )
    => /\ Len(instances)
            = Len(chunks) * chunks[1].size * chunks[1].size * chunks[1].size
       /\ Cardinality({instances[k].transform : k \in 1..Len(instances)}) = Len(instances)

---------------------------------------------------------------------------
(* Vectors of the cube mesh *)

Sub(u, v) == << u[1] - v[1], u[2] - v[2], u[3] - v[3] >>

Cross(u, v) ==
    << (u[2] * v[3]) - (u[3] * v[2]),
       (u[3] * v[1]) - (u[1] * v[3]),
       (u[1] * v[2]) - (u[2] * v[1]) >>

Dot(u, v) == (u[1] * v[1]) + (u[2] * v[2]) + (u[3] * v[3])

SameDirection(u, v) == Cross(u, v) = <<0, 0, 0>> /\ Dot(u, v) > 0

MeshStored == pc \in {"ready", "rendered"}

(* C9.  The index list of the cube mesh has 36 entries, each below the      *)
(* vertex count 24, and for each of its 12 triples (a, b, c) the cross      *)
(* product (pos[b] - pos[a]) x (pos[c] - pos[a]) points the way of the      *)
(* normal of each of the three vertices.                                    *)
C9_IndicesWindOutward ==
    MeshStored =>
        /\ Len(mesh.indices) = 36
        /\ Len(mesh.positions) = 24
        /\ Len(mesh.normals) = 24
        /\ \A n \in 1..Len(mesh.indices) :
              mesh.indices[n] >= 0 /\ mesh.indices[n] < Len(mesh.positions)
        /\ \A t \in 0..11 :
              LET a == mesh.indices[(3 * t) + 1]
                  b == mesh.indices[(3 * t) + 2]
                  c == mesh.indices[(3 * t) + 3]
                  w == Cross(Sub(mesh.positions[b + 1], mesh.positions[a + 1]),
                             Sub(mesh.positions[c + 1], mesh.positions[a + 1]))
              IN  \A v \in {a, b, c} : SameDirection(w, mesh.normals[v + 1])

\* the mesh has been generated and stored
C9_Witness == MeshStored /\ Len(mesh.indices) > 0 /\ pc = "rendered"

(* C10.  The early return of render_chunks is never taken: in every state   *)
(* reached from new by set calls get returns a voxel for every coordinate   *)
(* of the iteration, so the loops visit all size^3 cells of every chunk.    *)
C10_EarlyReturnUnreachable ==
    /\ InBinary =>
          \A i \in 1..NumChunks : \A d \in Cube(ChunkAt(i).size) :
              Chunk_get(ChunkAt(i), d[1], d[2], d[3]) # None
    /\ aborted = {}
    /\ pc = "rendered" =>
          \A i \in 1..Len(chunks) :
              Cardinality(InstancesOf(i)) = chunks[i].size * chunks[i].size * chunks[i].size

\* chunks with more than one cell have been rendered, one of them modified by a set
C10_Witness ==
    /\ pc = "rendered"
    /\ Len(chunks) = 2
    /\ chunks[1].size = MaxSize
    /\ nsets > 0
    /\ Len(instances) = 2 * MaxSize * MaxSize * MaxSize

=============================================================================
